---- MODULE Spec2Model ----
(***************************************************************************)
(* Model of src/S3-to-dynamodb.py: an AWS Lambda handler that receives a   *)
(* batch of SQS records, each announcing one S3 object, reads the object   *)
(* as CSV and writes one DynamoDB item per CSV row.                        *)
(*                                                                         *)
(* Python strings are sequences of one-character strings, so that split,   *)
(* replace, int() and Decimal() are computed character by character.       *)
(* The Python value None is the one-element sequence <<NoneTok>>, whose    *)
(* element is not a character.                                             *)
(***************************************************************************)
EXTENDS Integers, Sequences, FiniteSets, TLC

VARIABLES
    table,          \* the DynamoDB table: (symbol_timestamp, row_key) -> item
    pc,             \* where the handler is: idle, loop, rows, returned, raised
    event,          \* the envelope of the running invocation
    pos,            \* 1-based position of the for loop in event.Records
    total_files,    \* line 44
    total_rows,     \* line 45
    key,            \* line 57
    symbol,         \* line 60
    timestamp,      \* line 60
    rows,           \* line 67
    idx,            \* line 75
    response,       \* what the invocation returned
    invocations,    \* number of invocations started
    ops,            \* history: the fetches, upserts and failures of this invocation
    tableAtInvoke,  \* history: the table when this invocation started
    prev,           \* history: the last file whose row loop ended
    arg,            \* argument of a helper called on its own
    ret             \* what that helper returned

vars == <<table, pc, event, pos, total_files, total_rows, key, symbol, timestamp,
          rows, idx, response, invocations, ops, tableAtInvoke, prev, arg, ret>>

handlerVars == <<table, pc, event, pos, total_files, total_rows, key, symbol,
                 timestamp, rows, idx, response, invocations, ops, tableAtInvoke, prev>>

(***************************************************************************)
(* Bounds                                                                  *)
(***************************************************************************)
MaxKeyLen == 5

MaxBatch == 2

MaxRows == 2

MaxInvocations == 2

(***************************************************************************)
(* Strings                                                                 *)
(***************************************************************************)
NoneTok == "None"

None == <<NoneTok>>

Digits == <<"0", "1", "2", "3", "4", "5", "6", "7", "8", "9">>

DigitSet == {Digits[i] : i \in 1..10}

DigitValue(c) == (CHOOSE i \in 1..10 : Digits[i] = c) - 1

RECURSIVE PyStrNat(_)
\* str(n) for a natural number n
PyStrNat(n) == IF n < 10 THEN <<Digits[n + 1]>>
               ELSE PyStrNat(n \div 10) \o <<Digits[(n % 10) + 1]>>

\* str(v) of a field value: None prints as the four characters of "None"
PyStr(v) == IF v = None THEN <<"N", "o", "n", "e">> ELSE v

StartsWith(s, p) == Len(p) <= Len(s) /\ SubSeq(s, 1, Len(p)) = p

RECURSIVE SplitFrom(_, _, _, _)
SplitFrom(s, sep, cur, acc) ==
    IF s = <<>> THEN Append(acc, cur)
    ELSE IF Head(s) = sep THEN SplitFrom(Tail(s), sep, <<>>, Append(acc, cur))
    ELSE SplitFrom(Tail(s), sep, Append(cur, Head(s)), acc)

\* s.split(sep) for a one-character separator: empty segments are kept
Split(s, sep) == SplitFrom(s, sep, <<>>, <<>>)

RECURSIVE ReplaceFirst(_, _)
\* s.replace(old, "", 1): the leftmost occurrence of old is removed
ReplaceFirst(s, old) ==
    IF StartsWith(s, old) THEN SubSeq(s, Len(old) + 1, Len(s))
    ELSE IF s = <<>> THEN <<>>
    ELSE <<Head(s)>> \o ReplaceFirst(Tail(s), old)

RECURSIVE ReplaceAll(_, _)
ReplaceAll(s, old) ==
    IF old = <<>> \/ s = <<>> THEN s
    ELSE IF StartsWith(s, old) THEN ReplaceAll(SubSeq(s, Len(old) + 1, Len(s)), old)
    ELSE <<Head(s)>> \o ReplaceAll(Tail(s), old)

(***************************************************************************)
(* extract_symbol_timestamp, lines 25-38                                   *)
(***************************************************************************)
ValueError == [raised |-> TRUE, symbol |-> <<>>, timestamp |-> <<>>]

\* a variant that removes every occurrence of the symbol from the file name
extract_symbol_timestamp_all(k) ==
    LET parts == Split(k, "/")
    IN  IF Len(parts) < 2 THEN ValueError
        ELSE [raised |-> FALSE,
              symbol |-> parts[2],
              timestamp |-> ReplaceAll(Split(parts[Len(parts)], ".")[1], parts[2])]

extract_symbol_timestamp(k) ==
    LET parts == Split(k, "/")
        filename == Split(parts[Len(parts)], ".")[1]
    IN  IF Len(parts) < 2 THEN ValueError
        ELSE [raised |-> FALSE,
              symbol |-> parts[2],
              timestamp |-> ReplaceFirst(filename, parts[2])]

(***************************************************************************)
(* Numeric coercion: int(), line 88, and safe_decimal, lines 18-23         *)
(***************************************************************************)
Unsigned(s) == IF s # <<>> /\ Head(s) \in {"+", "-"} THEN Tail(s) ELSE s

RECURSIVE NatOf(_)
\* the number written by a sequence of digits
NatOf(ds) == IF ds = <<>> THEN 0
             ELSE 10 * NatOf(SubSeq(ds, 1, Len(ds) - 1)) + DigitValue(ds[Len(ds)])

Signed(s, n) == IF s # <<>> /\ Head(s) = "-" THEN 0 - n ELSE n

\* int(v) succeeds: an optional sign and then digits only (the values the
\* model feeds hold no blanks and no underscores); int(None) raises TypeError
IntOk(v) ==
    /\ v # None
    /\ Unsigned(v) # <<>>
    /\ \A i \in 1..Len(Unsigned(v)) : Unsigned(v)[i] \in DigitSet

IntValue(v) == Signed(v, NatOf(Unsigned(v)))

DecimalZero == [coef |-> 0, exp |-> 0]

\* Decimal(s) succeeds: an optional sign, digits with at most one point, at
\* least one digit
DecimalOk(s) ==
    LET b == Unsigned(s)
    IN  /\ \A i \in 1..Len(b) : b[i] \in DigitSet \cup {"."}
        /\ Cardinality({i \in 1..Len(b) : b[i] = "."}) <= 1
        /\ \E i \in 1..Len(b) : b[i] \in DigitSet

IsDigit(c) == c \in DigitSet

DecimalValue(s) ==
    LET b == Unsigned(s)
        point == {i \in 1..Len(b) : b[i] = "."}
        frac == IF point = {} THEN 0 ELSE Len(b) - (CHOOSE i \in point : TRUE)
    IN  [coef |-> Signed(s, NatOf(SelectSeq(b, IsDigit))), exp |-> 0 - frac]

safe_decimal(value) ==
    IF DecimalOk(PyStr(value)) THEN DecimalValue(PyStr(value)) ELSE DecimalZero

(***************************************************************************)
(* process_csv, lines 11-16.  An S3 object is [readable, header, lines]:   *)
(* whether get_object and decode succeed, the fields of the first line and *)
(* the fields of each later line.                                          *)
(***************************************************************************)
Columns == {"date", "open", "close", "high", "low", "volume"}

Range(f) == {f[i] : i \in DOMAIN f}

NotBlank(line) == line # <<>>

\* csv.DictReader: one dict per non-blank line, keyed by the header's names;
\* a line shorter than the header gets None for the fields it lacks
DictOf(header, line) ==
    [c \in Range(header) |->
        LET i == CHOOSE j \in DOMAIN header : header[j] = c
        IN  IF i <= Len(line) THEN line[i] ELSE None]

process_csv(obj) ==
    LET data == SelectSeq(obj.lines, NotBlank)
    IN  [i \in 1..Len(data) |-> DictOf(obj.header, data[i])]

(***************************************************************************)
(* The item of one row, lines 76-89, and the table's upsert                *)
(***************************************************************************)
\* a lookup row[c] of lines 77-88 raises KeyError, or int() raises
RowRaises(r) ==
    IF \E c \in Columns : c \notin DOMAIN r THEN TRUE ELSE ~IntOk(r["volume"])

\* a variant of the sort key without the row index
SortKeyNoIndex(r, i) == PyStr(r["date"])

SortKey(r, i) == PyStr(r["date"]) \o <<"_">> \o PyStrNat(i)

PartitionKey(sym, ts) == sym \o <<"_">> \o ts

ItemOf(sym, ts, r, i) ==
    [symbol_timestamp |-> PartitionKey(sym, ts),
     row_key |-> SortKey(r, i),
     symbol |-> sym,
     timestamp |-> ts,
     date |-> r["date"],
     open |-> safe_decimal(r["open"]),
     close |-> safe_decimal(r["close"]),
     high |-> safe_decimal(r["high"]),
     low |-> safe_decimal(r["low"]),
     volume |-> IntValue(r["volume"])]

KeyOf(item) == <<item.symbol_timestamp, item.row_key>>

\* a variant that keeps the item a key already has
put_item_if_absent(t, item) ==
    [k \in DOMAIN t \cup {KeyOf(item)} |-> IF k \in DOMAIN t THEN t[k] ELSE item]

\* put_item accepted by the table: insert, or overwrite the item of the same key
put_item(t, item) ==
    [k \in DOMAIN t \cup {KeyOf(item)} |-> IF k = KeyOf(item) THEN item ELSE t[k]]

(***************************************************************************)
(* Inputs: envelopes, SQS record bodies, object keys and S3 objects        *)
(***************************************************************************)
SeqsUpTo(A, n) == UNION {[1..m -> A] : m \in 0..n}

Without(q, i) == SubSeq(q, 1, i - 1) \o SubSeq(q, i + 1, Len(q))

Reverse(q) == [i \in 1..Len(q) |-> q[Len(q) + 1 - i]]

KeyA == <<"s", "/", "A", "/", "A", "1", ".", "c">>

KeyB == <<"s", "/", "B", "/", "A", "1", ".", "c">>

KeyShort == <<"A", "1", ".", "c">>

\* the body of an SQS record after json.loads: whether lines 50-51 succeed,
\* whether s3.bucket.name and s3.object.key exist, and the object key
Body(p, b, k, name) == [parses |-> p, hasBucket |-> b, hasKey |-> k, key |-> name]

Bodies ==
    {Body(FALSE, FALSE, FALSE, <<>>),
     Body(TRUE, FALSE, TRUE, KeyA),
     Body(TRUE, TRUE, FALSE, <<>>),
     Body(TRUE, TRUE, TRUE, KeyShort),
     Body(TRUE, TRUE, TRUE, KeyA)}

\* an envelope: whether it has the key 'Records', and the list under it
Envelope(h, r) == [has |-> h, Records |-> r]

\* the envelopes of the batch runs: no 'Records', or up to MaxBatch records
Events ==
    {Envelope(FALSE, <<>>)} \cup {Envelope(TRUE, r) : r \in SeqsUpTo(Bodies, MaxBatch)}

\* the envelopes of the single-file runs: no 'Records', or at most one record,
\* with a second object key whose file name does not start with the symbol
FileEvents ==
    {Envelope(FALSE, <<>>), Envelope(TRUE, <<>>)}
        \cup {Envelope(TRUE, <<b>>) : b \in Bodies \cup {Body(TRUE, TRUE, TRUE, KeyB)}}

FullHeader == <<"date", "open", "close", "high", "low", "volume">>

Line1 == <<(<<"d">>), (<<"1", ".", "5">>), (<<"2">>), (<<"x">>), (<<>>), (<<"7">>)>>

Line2 == <<(<<"d">>), (<<"3">>), (<<"2">>), (<<"1">>), (<<"1">>), (<<"1", "2">>)>>

Line3 == <<(<<"e">>), (<<"1">>), (<<"1">>), (<<"1">>), (<<"1">>), (<<"1", ".", "5">>)>>

Lines == {Line1, Line2, Line3}

Object(r, h, l) == [readable |-> r, header |-> h, lines |-> l]

\* objects whose header has every required column
FullObjects == {Object(TRUE, FullHeader, l) : l \in SeqsUpTo(Lines, MaxRows)}

\* objects whose header lacks one required column, with no or one data line
LackingObjects ==
    UNION {{Object(TRUE, Without(FullHeader, i), <<>>),
            Object(TRUE, Without(FullHeader, i), <<Without(Line1, i)>>)} :
                i \in 1..Len(FullHeader)}

\* an unreadable object, an empty one, one with its columns in another order,
\* one with a blank line, and one whose data line stops after the date
OtherObjects ==
    {Object(FALSE, <<>>, <<>>),
     Object(TRUE, <<>>, <<>>),
     Object(TRUE, Reverse(FullHeader), <<Reverse(Line1)>>),
     Object(TRUE, FullHeader, <<(<<>>), Line2>>),
     Object(TRUE, FullHeader, <<(<<(<<"d">>)>>)>>)}

\* the objects of the single-file runs
FileObjects == FullObjects \cup LackingObjects \cup OtherObjects

\* the objects of the batch runs: unreadable, empty, two rows of one date, one
\* row that rewrites the first of them, and a row followed by a bad volume
Objects ==
    {Object(FALSE, <<>>, <<>>),
     Object(TRUE, <<>>, <<>>),
     Object(TRUE, FullHeader, <<Line1, Line2>>),
     Object(TRUE, FullHeader, <<Line2>>),
     Object(TRUE, FullHeader, <<Line1, Line3>>)}

(***************************************************************************)
(* lambda_handler, lines 40-99                                             *)
(***************************************************************************)
NoResponse == [statusCode |-> 0, files |-> 0, rows |-> 0]

NoFile == [key |-> <<>>, rows |-> <<>>, stop |-> 0, puts |-> <<>>, after |-> <<>>]

HandlerInit ==
    /\ table = <<>>
    /\ pc = "idle"
    /\ event = [has |-> FALSE, Records |-> <<>>]
    /\ pos = 0
    /\ total_files = 0
    /\ total_rows = 0
    /\ key = <<>>
    /\ symbol = <<>>
    /\ timestamp = <<>>
    /\ rows = <<>>
    /\ idx = 0
    /\ response = NoResponse
    /\ invocations = 0
    /\ ops = <<>>
    /\ tableAtInvoke = <<>>
    /\ prev = NoFile

NotCalled == [called |-> FALSE, out |-> ValueError]

Init == HandlerInit /\ arg = <<>> /\ ret = NotCalled

body == event.Records[pos]

\* the record is done with: the for loop of line 47 moves on
Continue == pos' = pos + 1 /\ pc' = "loop"

\* a variant that tests the truth of event.get('Records') instead of the
\* presence of the key: an empty list is answered 400
Invoke_falsy(E, n) ==
    /\ pc \in {"idle", "returned", "raised"}
    /\ invocations < n
    /\ \E ev \in E :
        /\ event' = ev
        /\ IF ev.has /\ ev.Records # <<>>
              THEN pc' = "loop" /\ response' = NoResponse
              ELSE pc' = "returned"
                   /\ response' = [statusCode |-> 400, files |-> 0, rows |-> 0]
    /\ invocations' = invocations + 1
    /\ pos' = 1
    /\ total_files' = 0
    /\ total_rows' = 0
    /\ ops' = <<>>
    /\ tableAtInvoke' = table
    /\ UNCHANGED <<table, key, symbol, timestamp, rows, idx, prev, arg, ret>>

\* lines 40-45: the platform calls the handler with an envelope
Invoke(E, n) ==
    /\ pc \in {"idle", "returned", "raised"}
    /\ invocations < n
    /\ \E ev \in E :
        /\ event' = ev
        /\ IF ev.has
              THEN pc' = "loop" /\ response' = NoResponse
              ELSE pc' = "returned"
                   /\ response' = [statusCode |-> 400, files |-> 0, rows |-> 0]
    /\ invocations' = invocations + 1
    /\ pos' = 1
    /\ total_files' = 0
    /\ total_rows' = 0
    /\ ops' = <<>>
    /\ tableAtInvoke' = table
    /\ UNCHANGED <<table, key, symbol, timestamp, rows, idx, prev, arg, ret>>

InLoop == pc = "loop" /\ pos <= Len(event.Records)

\* lines 49-54: the body does not parse, or holds no Records[0]['s3']
ParseFail ==
    /\ InLoop
    /\ ~body.parses
    /\ ops' = Append(ops, [op |-> "skip", sub |-> pos])
    /\ Continue
    /\ UNCHANGED <<table, event, total_files, total_rows, key, symbol, timestamp,
                   rows, idx, response, invocations, tableAtInvoke, prev, arg, ret>>

\* lines 56-57, outside every try: a missing 'name' or 'key' raises KeyError
\* out of the handler
FieldRaise ==
    /\ InLoop
    /\ body.parses
    /\ ~(body.hasBucket /\ body.hasKey)
    /\ pc' = "raised"
    /\ UNCHANGED <<table, event, pos, total_files, total_rows, key, symbol, timestamp,
                   rows, idx, response, invocations, ops, tableAtInvoke, prev, arg, ret>>

HasKey == InLoop /\ body.parses /\ body.hasBucket /\ body.hasKey

\* lines 59-63: extract_symbol_timestamp raises
KeyFail ==
    /\ HasKey
    /\ extract_symbol_timestamp(body.key).raised
    /\ key' = body.key
    /\ ops' = Append(ops, [op |-> "skip", sub |-> pos])
    /\ Continue
    /\ UNCHANGED <<table, event, total_files, total_rows, symbol, timestamp,
                   rows, idx, response, invocations, tableAtInvoke, prev, arg, ret>>

\* lines 59-70: the key is accepted and process_csv raises
FetchFail(O) ==
    /\ HasKey
    /\ ~extract_symbol_timestamp(body.key).raised
    /\ \E obj \in O :
        /\ ~obj.readable
        /\ ops' = Append(ops, [op |-> "nofetch", sub |-> pos])
    /\ key' = body.key
    /\ symbol' = extract_symbol_timestamp(body.key).symbol
    /\ timestamp' = extract_symbol_timestamp(body.key).timestamp
    /\ Continue
    /\ UNCHANGED <<table, event, total_files, total_rows,
                   rows, idx, response, invocations, tableAtInvoke, prev, arg, ret>>

\* lines 59-75: the key is accepted, process_csv returns the rows and the
\* row loop starts
Fetch(O) ==
    /\ HasKey
    /\ ~extract_symbol_timestamp(body.key).raised
    /\ \E obj \in O :
        /\ obj.readable
        /\ rows' = process_csv(obj)
        /\ ops' = Append(ops, [op |-> "fetch", sub |-> pos, header |-> obj.header,
                               rows |-> process_csv(obj)])
    /\ key' = body.key
    /\ symbol' = extract_symbol_timestamp(body.key).symbol
    /\ timestamp' = extract_symbol_timestamp(body.key).timestamp
    /\ idx' = 0
    /\ pc' = "rows"
    /\ UNCHANGED <<table, event, pos, total_files, total_rows,
                   response, invocations, tableAtInvoke, prev, arg, ret>>

InRows == pc = "rows" /\ idx < Len(rows)

row == rows[idx + 1]

IsPut(e) == e.op = "put"

\* the upserts the table accepted for record i, in the order they were made
PutsOf(i) == SelectSeq(ops, LAMBDA e : IsPut(e) /\ e.sub = i)

ItemsOf(i) == [j \in 1..Len(PutsOf(i)) |-> PutsOf(i)[j].item]

\* the row loop of this file is over, with the rows before idx written
FileEnds ==
    prev' = [key |-> key, rows |-> rows, stop |-> idx, puts |-> ItemsOf(pos),
             after |-> table]

\* a variant that numbers the rows across the files of the batch
PutItem_running ==
    /\ InRows
    /\ ~RowRaises(row)
    /\ table' = put_item(table, ItemOf(symbol, timestamp, row, total_rows + idx))
    /\ ops' = Append(ops, [op |-> "put", sub |-> pos, idx |-> idx,
                           item |-> ItemOf(symbol, timestamp, row, total_rows + idx)])
    /\ idx' = idx + 1
    /\ UNCHANGED <<pc, event, pos, total_files, total_rows, key, symbol, timestamp,
                   rows, response, invocations, tableAtInvoke, prev, arg, ret>>

\* lines 75-89: the item of row idx is built and the table accepts it
PutItem ==
    /\ InRows
    /\ ~RowRaises(row)
    /\ table' = put_item(table, ItemOf(symbol, timestamp, row, idx))
    /\ ops' = Append(ops, [op |-> "put", sub |-> pos, idx |-> idx,
                           item |-> ItemOf(symbol, timestamp, row, idx)])
    /\ idx' = idx + 1
    /\ UNCHANGED <<pc, event, pos, total_files, total_rows, key, symbol, timestamp,
                   rows, response, invocations, tableAtInvoke, prev, arg, ret>>

\* a variant that leaves the for loop of line 47 instead of going on with it
RowRaise_break ==
    /\ InRows
    /\ RowRaises(row)
    /\ ops' = Append(ops, [op |-> "fail", sub |-> pos, idx |-> idx])
    /\ FileEnds
    /\ pos' = Len(event.Records) + 1
    /\ pc' = "loop"
    /\ UNCHANGED <<table, event, total_files, total_rows, key, symbol, timestamp,
                   rows, idx, response, invocations, tableAtInvoke, arg, ret>>

\* a variant that counts the file it gives up
RowRaise_counts ==
    /\ InRows
    /\ RowRaises(row)
    /\ ops' = Append(ops, [op |-> "fail", sub |-> pos, idx |-> idx])
    /\ total_files' = total_files + 1
    /\ FileEnds
    /\ Continue
    /\ UNCHANGED <<table, event, total_rows, key, symbol, timestamp,
                   rows, idx, response, invocations, tableAtInvoke, arg, ret>>

\* lines 77-88 and 93-94: a column lookup or int() raises while the item of
\* row idx is built; the file is given up
RowRaise ==
    /\ InRows
    /\ RowRaises(row)
    /\ ops' = Append(ops, [op |-> "fail", sub |-> pos, idx |-> idx])
    /\ FileEnds
    /\ Continue
    /\ UNCHANGED <<table, event, total_files, total_rows, key, symbol, timestamp,
                   rows, idx, response, invocations, tableAtInvoke, arg, ret>>

\* a variant that catches the rejection inside the row loop and goes on with
\* the next row
PutRejected_resume ==
    /\ InRows
    /\ ~RowRaises(row)
    /\ ops' = Append(ops, [op |-> "fail", sub |-> pos, idx |-> idx])
    /\ idx' = idx + 1
    /\ UNCHANGED <<table, pc, event, pos, total_files, total_rows, key, symbol,
                   timestamp, rows, response, invocations, tableAtInvoke, prev, arg, ret>>

\* a variant that counts the rows written before the rejection
PutRejected_counted ==
    /\ InRows
    /\ ~RowRaises(row)
    /\ ops' = Append(ops, [op |-> "fail", sub |-> pos, idx |-> idx])
    /\ total_rows' = total_rows + idx
    /\ FileEnds
    /\ Continue
    /\ UNCHANGED <<table, event, total_files, key, symbol, timestamp,
                   rows, idx, response, invocations, tableAtInvoke, arg, ret>>

\* lines 78 and 93-94: the table rejects the upsert of row idx; the file is
\* given up
PutRejected ==
    /\ InRows
    /\ ~RowRaises(row)
    /\ ops' = Append(ops, [op |-> "fail", sub |-> pos, idx |-> idx])
    /\ FileEnds
    /\ Continue
    /\ UNCHANGED <<table, event, total_files, total_rows, key, symbol, timestamp,
                   rows, idx, response, invocations, tableAtInvoke, arg, ret>>

\* lines 90-92: every row was written; the file and its rows are counted
FileDone ==
    /\ pc = "rows"
    /\ idx = Len(rows)
    /\ total_files' = total_files + 1
    /\ total_rows' = total_rows + Len(rows)
    /\ ops' = Append(ops, [op |-> "done", sub |-> pos])
    /\ FileEnds
    /\ Continue
    /\ UNCHANGED <<table, event, key, symbol, timestamp,
                   rows, idx, response, invocations, tableAtInvoke, arg, ret>>

\* lines 96-99: the for loop is over
Return ==
    /\ pc = "loop"
    /\ pos > Len(event.Records)
    /\ response' = [statusCode |-> 200, files |-> total_files, rows |-> total_rows]
    /\ pc' = "returned"
    /\ UNCHANGED <<table, event, pos, total_files, total_rows, key, symbol, timestamp,
                   rows, idx, invocations, ops, tableAtInvoke, prev, arg, ret>>

\* the handler run on envelopes of E, reading objects of O, n times at most
HandlerNext(E, O, n) ==
    \/ Invoke(E, n)
    \/ ParseFail
    \/ FieldRaise
    \/ KeyFail
    \/ FetchFail(O)
    \/ Fetch(O)
    \/ PutItem
    \/ RowRaise
    \/ PutRejected
    \/ FileDone
    \/ Return

Next == HandlerNext(Events, Objects, MaxInvocations)

\* batches of records, over successive invocations
Spec == Init /\ [][Next]_vars

NextFile == HandlerNext(FileEvents, FileObjects, 1)

\* one invocation on at most one record, over every object of FileObjects
SpecFile == Init /\ [][NextFile]_vars

(***************************************************************************)
(* extract_symbol_timestamp called on its own, on every key of at most     *)
(* MaxKeyLen characters and on the key of its docstring                    *)
(***************************************************************************)
KeyChars == {"/", ".", "A", "1"}

ExampleKey ==
    <<"s", "t", "o", "c", "k", "s", "/", "L", "Y", "F", "T", "/", "L", "Y", "F", "T",
      "2", "0", "2", "5", "-", "1", "1", "-", "1", "7", "_", "1", "5", "-", "2", "6",
      "-", "5", "5", ".", "c", "s", "v">>

InitKey ==
    /\ HandlerInit
    /\ arg \in SeqsUpTo(KeyChars, MaxKeyLen) \cup {ExampleKey}
    /\ ret = NotCalled

CallExtract ==
    /\ ~ret.called
    /\ ret' = [called |-> TRUE, out |-> extract_symbol_timestamp(arg)]
    /\ UNCHANGED <<handlerVars, arg>>

NextKey == CallExtract

SpecKey == InitKey /\ [][NextKey]_vars

(***************************************************************************)
(* What the history says about one record of the running invocation       *)
(***************************************************************************)
Subs == 1..Len(event.Records)

At(o, i) == {p \in DOMAIN ops : ops[p].op = o /\ ops[p].sub = i}

Fetched(i) == At("fetch", i) # {}

FetchOf(i) == ops[CHOOSE p \in At("fetch", i) : TRUE]

Failed(i) == At("fail", i) # {}

FailOf(i) == ops[CHOOSE p \in At("fail", i) : TRUE]

\* the handler is done with record i
Over(i) == i < pos \/ (pc = "returned" /\ i \in Subs)

Min(A) == CHOOSE x \in A : \A y \in A : x <= y

Max(A) == CHOOSE x \in A : \A y \in A : y <= x

\* the last upsert of the history that wrote key k
LastPut(k) == ops[Max({p \in DOMAIN ops : IsPut(ops[p]) /\ KeyOf(ops[p].item) = k})]

PutKeys == {KeyOf(ops[p].item) : p \in {q \in DOMAIN ops : IsPut(ops[q])}}

(***************************************************************************)
(* The key convention of the design, stated on the positions of the '/'    *)
(* and '.' characters of the key                                           *)
(***************************************************************************)
SlashAt(k) == {i \in 1..Len(k) : k[i] = "/"}

SecondSegment(k) ==
    LET first == Min(SlashAt(k))
        rest == SlashAt(k) \ {first}
    IN  SubSeq(k, first + 1, IF rest = {} THEN Len(k) ELSE Min(rest) - 1)

Stem(k) ==
    LET last == SubSeq(k, Max(SlashAt(k)) + 1, Len(k))
        dots == {i \in 1..Len(last) : last[i] = "."}
    IN  IF dots = {} THEN last ELSE SubSeq(last, 1, Min(dots) - 1)

Occurrences(s, w) == {p \in 1..(Len(s) - Len(w) + 1) : SubSeq(s, p, p + Len(w) - 1) = w}

WithoutFirst(s, w) ==
    IF Occurrences(s, w) = {} THEN s
    ELSE LET p == Min(Occurrences(s, w))
         IN  SubSeq(s, 1, p - 1) \o SubSeq(s, p + Len(w), Len(s))

\* the item the design asks for row r, the j-th (from zero) of the file of key k
ExpectedItem(k, r, j) ==
    [symbol_timestamp |-> SecondSegment(k) \o <<"_">> \o WithoutFirst(Stem(k), SecondSegment(k)),
     row_key |-> PyStr(r["date"]) \o <<"_">> \o PyStrNat(j),
     symbol |-> SecondSegment(k),
     timestamp |-> WithoutFirst(Stem(k), SecondSegment(k)),
     date |-> r["date"],
     open |-> safe_decimal(r["open"]),
     close |-> safe_decimal(r["close"]),
     high |-> safe_decimal(r["high"]),
     low |-> safe_decimal(r["low"]),
     volume |-> IntValue(r["volume"])]

\* the upserts the design asks for the first n rows of the file of record i
ExpectedItems(i, n) ==
    [j \in 1..n |-> ExpectedItem(event.Records[i].key, FetchOf(i).rows[j], j - 1)]

(***************************************************************************)
(* Claims                                                                  *)
(***************************************************************************)

\* C1: an envelope that has 'Records' always gets a 200 summary: no content of
\* a record makes the handler raise, and when it returns every record of the
\* batch was handled (skipped with a log, or its file processed).
C1_AlwaysSummary ==
    event.has =>
        /\ pc # "raised"
        /\ pc = "returned" =>
            /\ response.statusCode = 200
            /\ \A i \in Subs : \E p \in DOMAIN ops : ops[p].sub = i

\* C2: when the row loop of a file fails at row k, the upserts accepted for
\* that file are those of rows 0..k-1, all made before the failure and none
\* after it, and they stay: each of their keys is still in the table with the
\* item of the last upsert made for it, and no key the table had when the
\* invocation started has been removed.
C2_NoRollback ==
    /\ \A i \in Subs : Failed(i) =>
        /\ Len(PutsOf(i)) = FailOf(i).idx
        /\ \A j \in 1..Len(PutsOf(i)) : PutsOf(i)[j].idx = j - 1
        /\ \A p \in At("put", i) : p < Min(At("fail", i))
        /\ \A j \in 1..Len(PutsOf(i)) : KeyOf(PutsOf(i)[j].item) \in DOMAIN table
    /\ \A k \in PutKeys : k \in DOMAIN table /\ table[k] = LastPut(k).item
    /\ \A k \in DOMAIN tableAtInvoke :
        k \in DOMAIN table /\ (k \notin PutKeys => table[k] = tableAtInvoke[k])

\* a file failed at row 1 after its row 0 was written, the batch went on to
\* the end, and the table had items before the invocation
C2_Witness ==
    /\ pc = "returned"
    /\ tableAtInvoke # <<>>
    /\ \E i \in Subs : Failed(i) /\ FailOf(i).idx = 1 /\ Len(PutsOf(i)) = 1

\* C3: a file that fails in its row loop changes nothing for the other records
\* of the batch: each of them, before or after it, is handled, and the upserts
\* made for it are those its own key, its own file and its own stopping point
\* ask for; the failed file is not among the files counted.
C3_SiblingsUnaffected ==
    (\E f \in Subs : Failed(f)) =>
        /\ \A i \in Subs : Over(i) =>
            /\ \E p \in DOMAIN ops : ops[p].sub = i
            /\ Fetched(i) /\ ~Failed(i) => ItemsOf(i) = ExpectedItems(i, Len(FetchOf(i).rows))
            /\ Fetched(i) /\ Failed(i) => ItemsOf(i) = ExpectedItems(i, FailOf(i).idx)
            /\ ~Fetched(i) => PutsOf(i) = <<>>
        /\ pc = "returned" =>
            response.files <= Cardinality({i \in Subs : Fetched(i) /\ ~Failed(i)})

\* the first file failed at row 1 on its volume, the second was written whole
C3_Witness ==
    /\ pc = "returned"
    /\ Len(event.Records) = 2
    /\ Failed(1) /\ FailOf(1).idx = 1
    /\ Fetched(2) /\ ~Failed(2) /\ Len(PutsOf(2)) = 2
    /\ response.files = 1

\* the file of record i had every row written
FullyWritten(i) ==
    /\ Fetched(i)
    /\ \A j \in 1..Len(FetchOf(i).rows) :
        \E p \in At("put", i) : ops[p].idx = j - 1

RECURSIVE SumRows(_)
SumRows(A) ==
    IF A = {} THEN 0
    ELSE LET i == CHOOSE x \in A : TRUE
         IN  Len(FetchOf(i).rows) + SumRows(A \ {i})

\* C4: a 200 summary reports as files the number of records whose file had
\* every row written, and as rows the sum of the row counts of those files;
\* a record that failed at any stage adds nothing, whatever it wrote.
C4_Counts ==
    (pc = "returned" /\ response.statusCode = 200) =>
        /\ response.files = Cardinality({i \in Subs : FullyWritten(i)})
        /\ response.rows = SumRows({i \in Subs : FullyWritten(i)})

\* a batch of a file written whole and of a file that failed after a write
C4_Witness ==
    /\ pc = "returned"
    /\ response.statusCode = 200
    /\ response.files = 1
    /\ response.rows = 2
    /\ \E i \in Subs : Failed(i) /\ Len(PutsOf(i)) = 1

\* every row of the file of record i has the required columns and a volume
\* that int() accepts
AllGood(i) ==
    /\ Fetched(i)
    /\ \A j \in 1..Len(FetchOf(i).rows) : ~RowRaises(FetchOf(i).rows[j])

DistinctKeys(items) ==
    \A a, b \in 1..Len(items) : a # b => KeyOf(items[a]) # KeyOf(items[b])

C6_Idempotent ==
    [][(/\ pc = "rows"
        /\ pc' # "rows"
        /\ prev.key = key
        /\ prev.rows = rows
        /\ prev.stop = idx)
            => (ItemsOf(pos) = prev.puts /\ table' = prev.after /\ prev' = prev)]_vars

\* the first record of a second invocation is the file the first invocation
\* ended with, and both its rows have been written again
C6_Witness ==
    /\ invocations = 2
    /\ pos = 1
    /\ pc = "rows"
    /\ idx = 2
    /\ idx = Len(rows)
    /\ prev.key = key
    /\ prev.rows = rows
    /\ prev.stop = idx
    /\ table = prev.after

\* C7: the handler answers 400 exactly when the envelope has no 'Records', and
\* then fetched nothing, wrote nothing and left the table as it was; for an
\* empty 'Records' it answers 200 with 0 files and 0 rows, having fetched and
\* written nothing either.
C7_Envelope ==
    /\ (pc # "idle" /\ ~event.has) => (pc = "returned" /\ response.statusCode = 400)
    /\ pc = "returned" =>
        /\ response.statusCode = 400 <=> ~event.has
        /\ response.statusCode = 200 <=> event.has
        /\ ~event.has => (ops = <<>> /\ table = tableAtInvoke)
        /\ (event.has /\ event.Records = <<>>) =>
            /\ response = [statusCode |-> 200, files |-> 0, rows |-> 0]
            /\ ops = <<>>
            /\ table = tableAtInvoke

\* an envelope without 'Records' was answered 400 while the table held items
C7_Witness ==
    /\ pc = "returned"
    /\ ~event.has
    /\ response.statusCode = 400
    /\ table # <<>>

\* the header of the file of record i lacks a required column
Lacks(i) == Fetched(i) /\ \E c \in Columns : c \notin Range(FetchOf(i).header)

\* C8 as claimed: every file whose header lacks a required column is given
\* up: none of its rows is written and it is not counted, whatever its number
\* of data rows.
C8_Original ==
    /\ \A i \in Subs : (Over(i) /\ Lacks(i)) =>
        /\ PutsOf(i) = <<>>
        /\ At("done", i) = {}
    /\ pc = "returned" =>
        response.files <= Cardinality({i \in Subs : Fetched(i) /\ ~Lacks(i)})

\* C8 as amended: such a file is given up at its first data row, with nothing
\* written and nothing counted, when it has a data row; with none it is
\* counted as a file of 0 rows.
C8_LackingColumn ==
    /\ \A i \in Subs : (Over(i) /\ Lacks(i)) =>
        /\ PutsOf(i) = <<>>
        /\ FetchOf(i).rows # <<>> =>
            (Failed(i) /\ FailOf(i).idx = 0 /\ At("done", i) = {})
        /\ FetchOf(i).rows = <<>> => (~Failed(i) /\ At("done", i) # {})
    /\ pc = "returned" =>
        /\ response.files <=
            Cardinality({i \in Subs : Fetched(i) /\ ~(Lacks(i) /\ FetchOf(i).rows # <<>>)})
        /\ response.files >=
            Cardinality({i \in Subs : Lacks(i) /\ FetchOf(i).rows = <<>>})

\* a file with a data row and no volume column was given up
C8_Witness ==
    /\ pc = "returned"
    /\ Subs = {1}
    /\ Lacks(1)
    /\ "volume" \notin Range(FetchOf(1).header)
    /\ Len(FetchOf(1).rows) = 1
    /\ Failed(1)
    /\ response.files = 0

Lyft == <<"L", "Y", "F", "T">>

LyftStamp ==
    <<"2", "0", "2", "5", "-", "1", "1", "-", "1", "7", "_", "1", "5", "-", "2", "6",
      "-", "5", "5">>

\* C9: extract_symbol_timestamp raises for a key without '/' (fewer than 2
\* segments); for any other key the symbol is the second segment and the
\* timestamp is the last segment up to its first '.', less the first
\* occurrence of the symbol; when that stem starts with the symbol, symbol
\* followed by timestamp is the stem; the docstring's key gives LYFT and
\* 2025-11-17_15-26-55.
C9_Extract ==
    ret.called =>
        IF SlashAt(arg) = {} THEN ret.out.raised
        ELSE /\ ~ret.out.raised
             /\ ret.out.symbol = SecondSegment(arg)
             /\ ret.out.timestamp = WithoutFirst(Stem(arg), SecondSegment(arg))
             /\ StartsWith(Stem(arg), ret.out.symbol) =>
                    ret.out.symbol \o ret.out.timestamp = Stem(arg)
             /\ arg = ExampleKey =>
                    (ret.out.symbol = Lyft /\ ret.out.timestamp = LyftStamp)

\* the docstring's key was split into LYFT and its timestamp
C9_Witness ==
    /\ ret.called
    /\ arg = ExampleKey
    /\ ret.out = [raised |-> FALSE, symbol |-> Lyft, timestamp |-> LyftStamp]

\* C10: the records of a batch are handled in list order, one after the other:
\* the history never returns to an earlier record and skips none, and every
\* upsert of a record comes after its fetch and before anything of the next
\* record; so a key written for two records holds the item of the later one.
C10_Order ==
    /\ \A p \in DOMAIN ops : ops[p].sub \in Subs /\ ops[p].sub <= pos
    /\ ops # <<>> => ops[1].sub = 1
    /\ \A p \in DOMAIN ops : p > 1 =>
        (ops[p].sub = ops[p - 1].sub \/ ops[p].sub = ops[p - 1].sub + 1)
    /\ \A p \in DOMAIN ops : IsPut(ops[p]) =>
        \E q \in At("fetch", ops[p].sub) : q < p
    /\ \A k \in PutKeys :
        /\ k \in DOMAIN table
        /\ table[k] = LastPut(k).item
        /\ \A p \in DOMAIN ops :
            (IsPut(ops[p]) /\ KeyOf(ops[p].item) = k) => ops[p].sub <= LastPut(k).sub

\* two records of a batch wrote different items under one key, and the table
\* holds the item of the second
C10_Witness ==
    /\ pc = "returned"
    /\ \E p, q \in DOMAIN ops :
        /\ IsPut(ops[p]) /\ IsPut(ops[q])
        /\ ops[p].sub < ops[q].sub
        /\ KeyOf(ops[p].item) = KeyOf(ops[q].item)
        /\ ops[p].item # ops[q].item
        /\ table[KeyOf(ops[q].item)] = ops[q].item

====
